---- MODULE Spec2Model ----
(***************************************************************************)
(* A model of gpio-cdev's bounded line-offset set (line/set.rs), its       *)
(* masked line values (line/values.rs) and its line-option builder         *)
(* (line/option_builder.rs).                                               *)
(*                                                                         *)
(* Conventions.  A heapless::Vec<u32, N> is a sequence together with its   *)
(* capacity N.  An Option<T> is a sequence of length 0 (None) or 1 (Some). *)
(* A u64 bit field is the set of the positions of its 1 bits, so that      *)
(* `|` is \cup, `&` is \cap, `^` is the symmetric difference and `!x` is   *)
(* the complement within 0..63.  Slice indices are 0-based as in the code; *)
(* sequence s holds slice element i at s[i + 1].                           *)
(***************************************************************************)
EXTENDS Integers, Sequences, FiniteSets, TLC

VARIABLES
    capN,       \* the const parameter N of the LineSet<N> under study
    lines,      \* LineSet.0 : heapless::Vec<u32, N>
    panicked,   \* TRUE once a call has panicked (the thread unwinds)
    last,       \* the last call on the line set: its name, arguments and result
    valA,       \* three MaskedBits values
    valB,
    valC,
    merged,     \* the results of try_merge on them
    bitCall,    \* the last call of a MaskedBits accessor on valA and what it returned
    views,      \* what the consumers of MaskedBits make of valA and of valB
    encoded,    \* the last call of AsValues::values on the line set and its result
    fstr,       \* the FixedStr<32> at hand, if any: Some(s) with s : [u8; 32]
    strCall,    \* the last call on the FixedStr: its name, argument and result
    pc,         \* where the acquisition and the handle it yields stand
    args,       \* Lines::new(chip, consumer, options, offsets): the arguments
    req,        \* the local gpio_line_request of Lines::new
    issued,     \* the calls of the ioctl gpio_get_line, in order: request and result
    kernelFds,  \* the line descriptors the kernel has open for this process
    closes,     \* the descriptors closed by this process, in order
    handle,     \* the Lines value, if any
    given,      \* what the codec starts from: a LineInfo or a gpio_line_info
    wire,       \* the gpio_line_info at hand, if any
    info,       \* the result of LineInfo::from_v2(wire), if called
    rewire,     \* the gpio_line_info made by into_v2 of the decoded LineInfo, if called
    answers,    \* the answers of the queries on the decoded LineInfo, if asked
    returned,        \* what Lines::new returned, if it has
    builder,    \* a LineOptionBuilder<Dir>
    lowered     \* the LineFlags build_v2 returned for it, once it has

setVars == <<capN, lines, panicked, last>>

bitsVars == <<valA, valB, valC, merged, bitCall, views>>

builderVars == <<builder, lowered>>

valuesVars == <<encoded>>

strVars == <<fstr, strCall>>

acqVars == <<pc, args, req, issued, kernelFds, closes, handle, returned>>

infoVars == <<given, wire, info, rewire, answers>>

\* the variables of the other components, which a component's actions leave alone
otherThanSet == <<bitsVars, builderVars, valuesVars, strVars, acqVars, infoVars>>

otherThanBits == <<setVars, builderVars, valuesVars, strVars, acqVars, infoVars>>

otherThanBuilder == <<setVars, bitsVars, valuesVars, strVars, acqVars, infoVars>>

otherThanStr == <<setVars, bitsVars, builderVars, valuesVars, acqVars, infoVars>>

otherThanAcq == <<setVars, bitsVars, builderVars, valuesVars, strVars, infoVars>>

otherThanInfo == <<setVars, bitsVars, builderVars, valuesVars, strVars, acqVars>>

vars ==
    <<capN, lines, panicked, last, valA, valB, valC, merged, bitCall, views, encoded,
      builder, lowered, fstr, strCall,
      pc, args, req, issued, kernelFds, closes, handle, returned,
      given, wire, info, rewire, answers>>

----------------------------------------------------------------------------
(* Program constants *)

GPIO_LINES_MAX == 64

\* LineAttrId::OUTPUT_VALUES
OUTPUT_VALUES == 2

GPIO_MAX_NAME_SIZE == 32

GPIO_LINE_NUM_ATTRS_MAX == 10

\* LineAttrId
FLAGS == 1

DEBOUNCE == 3

\* uapi::v2::LineFlags: the bit position of each flag
USED == 0
ACTIVE_LOW == 1
INPUT == 2
OUTPUT == 3
EDGE_RISING == 4
EDGE_FALLING == 5
OPEN_DRAIN == 6
OPEN_SOURCE == 7
BIAS_PULL_UP == 8
BIAS_PULL_DOWN == 9
BIAS_DISABLED == 10
EVENT_CLOCK_REALTIME == 11
EVENT_CLOCK_HTE == 12

----------------------------------------------------------------------------
(* Bounds of the model *)

\* the small capacity parameter N explored exhaustively
SmallCap == 2
\* small offsets are 0..MaxOffset
MaxOffset == 2
\* long iterables start at 0..MaxStart
MaxStart == 0
\* long iterables have GPIO_LINES_MAX - Slack .. GPIO_LINES_MAX + 1 + Slack items
Slack == 1
\* MaskedBits values use the bit positions 0..MaxBit and 63
MaxBit == 0

\* the longest list of (offset, value) pairs given to AsValues::values
MaxPairs == 2

\* strings of at most MaxShort bytes, and of GPIO_MAX_NAME_SIZE bytes give or
\* take StrSlack
MaxShort == 2

StrSlack == 1

\* the most calls of FixedStr::write on one constructed string
MaxWrites == 1

\* the descriptor numbers the kernel may hand out for an acquired line
MaxFds == 1

\* attribute lists of at most MaxAttrs entries, and of GPIO_LINE_NUM_ATTRS_MAX
\* entries with a count of that give or take AttrSlack
MaxAttrs == 2

AttrSlack == 1

----------------------------------------------------------------------------
(* Option<T> *)

None == <<>>

Some(x) == <<x>>

Min(a, b) == IF a < b THEN a ELSE b

SeqRange(s) == {s[i] : i \in 1..Len(s)}

----------------------------------------------------------------------------
(* heapless::Vec and slice primitives used by line/set.rs *)

\* <[u32]>::sort : the ascending permutation of the slice.  Item i goes to
\* position rank[i]: after the smaller items and after the equal items before it.
sort(s) ==
    LET n == Len(s)
        ranks == {SubSeq([i \in 1..n |->
                            Cardinality({j \in 1..n : s[j] < s[i]})
                            + Cardinality({j \in 1..i : s[j] = s[i]})], 1, n)}
    IN  CHOOSE sorted \in {SubSeq([k \in 1..n |-> s[CHOOSE i \in 1..n : rank[i] = k]], 1, n) :
                             rank \in ranks} : TRUE

\* <[u32]>::binary_search on a sorted, duplicate-free slice:
\* Ok(index of the element) or Err(index where it can be inserted)
binary_search(v, x) ==
    IF \E i \in 1..Len(v) : v[i] = x
    THEN [found |-> TRUE, idx |-> (CHOOSE i \in 1..Len(v) : v[i] = x) - 1]
    ELSE [found |-> FALSE, idx |-> Cardinality({i \in 1..Len(v) : v[i] < x})]

\* heapless::Vec::insert(index, element): Err(element) when the vector is full
VecInsert(v, N, idx, x) ==
    IF Len(v) >= N THEN [ok |-> FALSE, vec |-> v]
    ELSE [ok |-> TRUE,
          vec |-> SubSeq(v, 1, idx) \o <<x>> \o SubSeq(v, idx + 1, Len(v))]

\* a removal that drops the last element whatever the index
VecRemove_last(v, idx) == SubSeq(v, 1, Len(v) - 1)

\* heapless::Vec::remove(index)
VecRemove(v, idx) == SubSeq(v, 1, idx) \o SubSeq(v, idx + 2, Len(v))

----------------------------------------------------------------------------
(* line/set.rs *)

capacity(N) == IF N > GPIO_LINES_MAX THEN GPIO_LINES_MAX ELSE N

find_idx(v, offset) ==
    LET r == binary_search(v, offset) IN IF r.found THEN Some(r.idx) ELSE None

\* add_offset that checks the capacity before the membership
add_offset_capacity_first(N, v, offset) ==
    LET r == binary_search(v, offset) IN
    IF Len(v) >= N THEN [res |-> "OutOfMemory", vec |-> v]
    ELSE IF r.found THEN [res |-> "AlreadyExists", vec |-> v]
    ELSE [res |-> "Ok", vec |-> VecInsert(v, N, r.idx, offset).vec]

add_offset(N, v, offset) ==
    LET r == binary_search(v, offset) IN
    IF r.found THEN [res |-> "AlreadyExists", vec |-> v]
    ELSE LET i == VecInsert(v, N, r.idx, offset) IN
         IF i.ok THEN [res |-> "Ok", vec |-> i.vec]
         ELSE [res |-> "OutOfMemory", vec |-> v]

\* remove_offset that reports success for an offset the set does not hold
remove_offset_lenient(v, offset) ==
    LET idx == find_idx(v, offset) IN
    IF idx = None THEN [res |-> "Ok", vec |-> v]
    ELSE [res |-> "Ok", vec |-> VecRemove(v, idx[1])]

remove_offset(v, offset) ==
    LET idx == find_idx(v, offset) IN
    IF idx = None THEN [res |-> "NotFound", vec |-> v]
    ELSE [res |-> "Ok", vec |-> VecRemove(v, idx[1])]

\* the closure passed to dedup by try_from_iter
same_bucket(a, b) == a = b

\* A loop of the code is its body, an operator from the loop's variables to
\* their next values that leaves them alone once the loop has ended, applied as
\* many times as the loop can go round.  The applications are split in halves,
\* the first half's result being computed before the second half starts.

\* dedup, first loop: first_duplicate_idx advances to the first element that
\* equals its predecessor, or to len
first_duplicate_step(v, idx) ==
    IF idx = Len(v) \/ same_bucket(v[idx + 1], v[idx]) THEN idx ELSE idx + 1

RECURSIVE first_duplicate_run(_, _, _)
first_duplicate_run(v, idx, k) ==
    IF k = 0 THEN idx
    ELSE IF k = 1 THEN first_duplicate_step(v, idx)
    ELSE CHOOSE r \in {first_duplicate_run(v, half, k - k \div 2) :
                        half \in {first_duplicate_run(v, idx, k \div 2)}} : TRUE

\* dedup, second loop: compaction with the read and write cursors of the gap
dedup_gap_step(gap) ==
    IF gap.read >= Len(gap.vec) THEN gap
    ELSE IF same_bucket(gap.vec[gap.read + 1], gap.vec[gap.write])
         THEN [gap EXCEPT !.read = gap.read + 1]
         ELSE [vec   |-> [gap.vec EXCEPT ![gap.write + 1] = gap.vec[gap.read + 1]],
               read  |-> gap.read + 1,
               write |-> gap.write + 1]

RECURSIVE dedup_gap_run(_, _)
dedup_gap_run(gap, k) ==
    IF k = 0 THEN gap
    ELSE IF k = 1 THEN dedup_gap_step(gap)
    ELSE CHOOSE r \in {dedup_gap_run(half, k - k \div 2) :
                        half \in {dedup_gap_run(gap, k \div 2)}} : TRUE

dedup(v) ==
    IF Len(v) <= 1 THEN v
    ELSE LET first_duplicate_idx == first_duplicate_run(v, 1, Len(v)) IN
         IF first_duplicate_idx = Len(v) THEN v
         ELSE LET gap == dedup_gap_run([vec   |-> v,
                                        read  |-> first_duplicate_idx + 1,
                                        write |-> first_duplicate_idx], Len(v))
              IN  SubSeq(gap.vec, 1, gap.write)

\* try_from_iter that forgets to sort
try_from_iter_unsorted(N, iter) ==
    LET vec == SubSeq(iter, 1, Min(N, Len(iter))) IN
    IF Len(iter) > Len(vec) THEN [res |-> "OutOfMemory", vec |-> <<>>]
    ELSE [res |-> "Ok", vec |-> dedup(vec)]

try_from_iter(N, iter) ==
    LET vec == SubSeq(iter, 1, Min(N, Len(iter))) IN
    IF Len(iter) > Len(vec) THEN [res |-> "OutOfMemory", vec |-> <<>>]
    ELSE [res |-> "Ok", vec |-> dedup(sort(vec))]

\* join_drain with the length check off by one
join_drain_strict(N, out, n, rest) ==
    IF Len(out) >= N THEN [res |-> "Err", vec |-> out]
    ELSE LET pushed == Append(out, n) IN
         IF Len(pushed) + Len(rest) >= GPIO_LINES_MAX
         THEN [res |-> "Err", vec |-> pushed]
         ELSE IF Len(pushed) + Len(rest) > N
              THEN [res |-> "Panic",
                    vec |-> pushed \o SubSeq(rest, 1, N - Len(pushed))]
              ELSE [res |-> "Ok", vec |-> pushed \o rest]

\* join: a drain arm.  n is the element in hand of the sequence that is left,
\* rest its iterator; Vec::extend panics when the vector cannot hold the rest.
join_drain(N, out, n, rest) ==
    IF Len(out) >= N THEN [res |-> "Err", vec |-> out]
    ELSE LET pushed == Append(out, n) IN
         IF Len(pushed) + Len(rest) > GPIO_LINES_MAX
         THEN [res |-> "Err", vec |-> pushed]
         ELSE IF Len(pushed) + Len(rest) > N
              THEN [res |-> "Panic",
                    vec |-> pushed \o SubSeq(rest, 1, N - Len(pushed))]
              ELSE [res |-> "Ok", vec |-> pushed \o rest]

\* join: one round of the merge loop.  m.a and m.b count the items taken from
\* the iterators a (over old) and b (over other), m.a_pending and m.b_pending
\* are the elements held back, m.vec is self.0 and m.res is "Loop" until a break.
join_step(N, old, other, m) ==
    IF m.res # "Loop" THEN m
    ELSE
    LET a_taken == m.a_pending = None /\ m.a < Len(old)
        a_next  == IF m.a_pending # None THEN m.a_pending
                   ELSE IF a_taken THEN Some(old[m.a + 1]) ELSE None
        a       == IF a_taken THEN m.a + 1 ELSE m.a
        b_taken == m.b_pending = None /\ m.b < Len(other)
        b_next  == IF m.b_pending # None THEN m.b_pending
                   ELSE IF b_taken THEN Some(other[m.b + 1]) ELSE None
        b       == IF b_taken THEN m.b + 1 ELSE m.b
        break(r) == [m EXCEPT !.res = r.res, !.vec = r.vec]
    IN  IF a_next = None /\ b_next = None THEN [m EXCEPT !.res = "Ok"]
        ELSE IF a_next = None
             THEN break(join_drain(N, m.vec, b_next[1], SubSeq(other, b + 1, Len(other))))
        ELSE IF b_next = None
             THEN break(join_drain(N, m.vec, a_next[1], SubSeq(old, a + 1, Len(old))))
        ELSE LET a_val == a_next[1]
                 b_val == b_next[1]
                 next  == IF a_val > b_val THEN b_val ELSE a_val
             IN  IF Len(m.vec) >= N THEN [m EXCEPT !.res = "Err"]
                 ELSE [vec       |-> Append(m.vec, next),
                       a         |-> a,
                       b         |-> b,
                       a_pending |-> IF a_val > b_val THEN Some(a_val) ELSE None,
                       b_pending |-> IF a_val < b_val THEN Some(b_val) ELSE None,
                       res       |-> "Loop"]

RECURSIVE join_run(_, _, _, _, _)
join_run(N, old, other, m, k) ==
    IF k = 0 THEN m
    ELSE IF k = 1 THEN join_step(N, old, other, m)
    ELSE CHOOSE r \in {join_run(N, old, other, half, k - k \div 2) :
                        half \in {join_run(N, old, other, m, k \div 2)}} : TRUE

JoinStart(old, other) ==
    [vec       |-> <<>>,
     a         |-> IF old = <<>> THEN 0 ELSE 1,
     b         |-> IF other = <<>> THEN 0 ELSE 1,
     a_pending |-> IF old = <<>> THEN None ELSE Some(old[1]),
     b_pending |-> IF other = <<>> THEN None ELSE Some(other[1]),
     res       |-> "Loop"]

join(N, old, other) ==
    LET r == join_run(N, old, other, JoinStart(old, other), Len(old) + Len(other) + 1)
    IN  CASE r.res = "Ok"    -> [res |-> "Ok", vec |-> r.vec]
          [] r.res = "Err"   -> [res |-> "OutOfMemory", vec |-> old]
          [] r.res = "Panic" -> [res |-> "Panic", vec |-> r.vec]

\* made is try_from_iter(N, iter)
try_extend(N, v, iter, made) ==
    IF made.res # "Ok" THEN [res |-> made.res, vec |-> v]
    ELSE join(N, v, made.vec)

----------------------------------------------------------------------------
(* The inputs of the line-set calls *)

CapChoices == {SmallCap, GPIO_LINES_MAX, GPIO_LINES_MAX + 1}

RECURSIVE SeqsUpTo(_, _)
SeqsUpTo(S, n) ==
    IF n = 0 THEN {<<>>}
    ELSE LET shorter == SeqsUpTo(S, n - 1) IN
         shorter \cup {Append(s, x) : s \in shorter, x \in S}

\* every sequence of small offsets with at most SmallCap + 1 items
SmallIters == SeqsUpTo(0..MaxOffset, SmallCap + 1)

Strided(lo, n, stride) == [i \in 1..n |-> lo + stride * (i - 1)]

Reversed(s) == [i \in 1..Len(s) |-> s[Len(s) + 1 - i]]

LongLens == (GPIO_LINES_MAX - Slack)..(GPIO_LINES_MAX + 1 + Slack)

\* runs of offsets, contiguous or every other one, of about GPIO_LINES_MAX
\* items or of at most one item: ascending, descending, and ascending with
\* the first offset produced once more at the end
LongIters ==
    LET runs == {Strided(lo, n, st) :
                    lo \in 0..MaxStart, n \in LongLens \cup {0, 1}, st \in {1, 2}}
    IN  runs \cup {Reversed(s) : s \in runs}
             \cup {Append(s, s[1]) : s \in {r \in runs : Len(r) > 1}}

Iterables(N) == IF N <= SmallCap THEN SmallIters ELSE LongIters

Offsets(N) ==
    IF N <= SmallCap THEN 0..MaxOffset
    ELSE (0..MaxStart) \cup ((GPIO_LINES_MAX - 1)..(GPIO_LINES_MAX + 1))

\* try_from_iter on every iterable, computed once
Constructed ==
    [N \in CapChoices |-> {<<it, try_from_iter(N, it)>> : it \in Iterables(N)}]

\* the line sets a caller can pass to join: the results of try_from_iter
LineSets(N) == {c[2].vec : c \in {d \in Constructed[N] : d[2].res = "Ok"}}

----------------------------------------------------------------------------
(* The line set: state and calls *)

Idle == [op |-> "idle", iter |-> <<>>, offset |-> 0, before |-> <<>>, res |-> "Ok"]

Call(op, iter, offset, r) ==
    [op |-> op, iter |-> iter, offset |-> offset, before |-> lines, res |-> r.res]

NotEncoded == [op |-> "none"]

NoSet ==
    /\ capN = GPIO_LINES_MAX
    /\ lines = <<>>
    /\ panicked = FALSE
    /\ last = Idle
    /\ encoded = NotEncoded

InitSet ==
    /\ capN \in CapChoices
    /\ lines = <<>>
    /\ panicked = FALSE
    /\ last = Idle
    /\ encoded = NotEncoded

CanCall == ~panicked /\ last = Idle

\* LineSet::<N>::try_from_iter(it): on success the set under study is the new set
TryFromIter ==
    /\ CanCall
    /\ \E c \in Constructed[capN] :
          /\ lines' = IF c[2].res = "Ok" THEN c[2].vec ELSE lines
          /\ last' = Call("try_from_iter", c[1], 0, c[2])
    /\ UNCHANGED <<capN, panicked, otherThanSet>>

\* <u32 as AsLineSet>::as_line_set::<N>
as_line_set(N, self) == try_from_iter(N, <<1>>)

\* n.as_line_set::<N>(): on success the set under study is the new set
AsLineSet ==
    /\ CanCall
    /\ \E n \in Offsets(capN) :
          LET r == as_line_set(capN, n) IN
          /\ lines' = IF r.res = "Ok" THEN r.vec ELSE lines
          /\ last' = Call("as_line_set", <<>>, n, r)
    /\ UNCHANGED <<capN, panicked, otherThanSet>>

AddOffset ==
    /\ CanCall
    /\ \E o \in Offsets(capN) :
          LET r == add_offset(capN, lines, o) IN
          /\ lines' = r.vec
          /\ last' = Call("add_offset", <<>>, o, r)
    /\ UNCHANGED <<capN, panicked, otherThanSet>>

RemoveOffset ==
    /\ CanCall
    /\ \E o \in Offsets(capN) :
          LET r == remove_offset(lines, o) IN
          /\ lines' = r.vec
          /\ last' = Call("remove_offset", <<>>, o, r)
    /\ UNCHANGED <<capN, panicked, otherThanSet>>

Join ==
    /\ CanCall
    /\ \E other \in LineSets(capN) :
          LET r == join(capN, lines, other) IN
          /\ lines' = r.vec
          /\ panicked' = (r.res = "Panic")
          /\ last' = Call("join", other, 0, r)
    /\ UNCHANGED <<capN, otherThanSet>>

TryExtend ==
    /\ CanCall
    /\ \E c \in Constructed[capN] :
          LET r == try_extend(capN, lines, c[1], c[2]) IN
          /\ lines' = r.vec
          /\ panicked' = (r.res = "Panic")
          /\ last' = Call("try_extend", c[1], 0, r)
    /\ UNCHANGED <<capN, otherThanSet>>

\* set.add_offset(o) and, whatever it returned, set.remove_offset(o)
AddThenRemove ==
    /\ CanCall
    /\ \E o \in Offsets(capN) :
          LET added   == add_offset(capN, lines, o)
              removed == remove_offset(added.vec, o) IN
          /\ lines' = removed.vec
          /\ last' = [op |-> "add_then_remove", iter |-> <<>>, offset |-> o,
                      before |-> lines, res |-> <<added.res, removed.res>>]
    /\ UNCHANGED <<capN, panicked, otherThanSet>>

\* the caller has looked at the result of the call and goes on
Return ==
    /\ last # Idle
    /\ ~panicked
    /\ last' = Idle
    /\ UNCHANGED <<capN, lines, panicked, otherThanSet>>

NextSet ==
    \/ TryFromIter \/ AddOffset \/ RemoveOffset \/ Join \/ TryExtend
    \/ AddThenRemove \/ AsLineSet \/ Return

----------------------------------------------------------------------------
(* Properties of the line set *)

StrictlyIncreasing(v) == \A i \in 1..(Len(v) - 1) : v[i] < v[i + 1]

\* v is the ascending, duplicate-free listing of the set S
Lists(v, S) == StrictlyIncreasing(v) /\ SeqRange(v) = S

\* C1: after any sequence of try_from_iter, add_offset, remove_offset, join
\* and try_extend calls on a LineSet<N>, the stored offsets are strictly
\* increasing and there are at most min(N, MAX_LINES) of them.
C1_SortedAndBounded ==
    /\ StrictlyIncreasing(lines)
    /\ Len(lines) <= Min(capN, GPIO_LINES_MAX)

\* C2: at the default capacity N = 64, A.join(B) succeeds exactly when the
\* union of A and B has at most 64 offsets, and then A lists that union in
\* ascending order, each offset once.
C2_JoinIsUnion ==
    (capN = GPIO_LINES_MAX /\ last.op = "join") =>
        LET union == SeqRange(last.before) \cup SeqRange(last.iter) IN
        /\ last.res = "Ok" <=> Cardinality(union) <= GPIO_LINES_MAX
        /\ last.res = "Ok" => Lists(lines, union)

\* C2 witness: a join of two overlapping sets, neither inside the other, that
\* fills the set to exactly 64 offsets
C2_Witness ==
    /\ capN = GPIO_LINES_MAX /\ last.op = "join" /\ last.res = "Ok"
    /\ Len(lines) = GPIO_LINES_MAX
    /\ SeqRange(last.before) \cap SeqRange(last.iter) # {}
    /\ SeqRange(last.before) \ SeqRange(last.iter) # {}
    /\ SeqRange(last.iter) \ SeqRange(last.before) # {}

\* C3: a join whose merged output would exceed the capacity returns the
\* capacity error and leaves the receiver as it was before the call, wherever
\* in the scan the overflow is found.
C3_JoinFailureRestores ==
    (last.op = "join"
       /\ Cardinality(SeqRange(last.before) \cup SeqRange(last.iter)) > capacity(capN)) =>
        /\ last.res = "OutOfMemory"
        /\ lines = last.before

\* C29: for a LineSet<N> with N below GPIO_LINES_MAX, a join never panics, and
\* a join whose union has more than N offsets returns the capacity error and
\* leaves the receiver as it was, also when one input is used up and the
\* rest of the other is appended in bulk.
C29_SmallJoinNeverPanics ==
    (capN < GPIO_LINES_MAX /\ last.op = "join") =>
        /\ ~panicked
        /\ last.res # "Panic"
        /\ Cardinality(SeqRange(last.before) \cup SeqRange(last.iter)) > capN =>
              last.res = "OutOfMemory" /\ lines = last.before

\* C28: converting a single offset n to a line set gives the set {n}, for
\* every n.
C28_SingleOffsetIsSingleton ==
    last.op = "as_line_set" => last.res = "Ok" /\ lines = <<last.offset>>

C10_AddOffset ==
    last.op = "add_offset" =>
        LET old == SeqRange(last.before) IN
        IF last.offset \in old
        THEN last.res = "AlreadyExists" /\ lines = last.before
        ELSE IF Len(last.before) >= capN
             THEN last.res = "OutOfMemory" /\ lines = last.before
             ELSE last.res = "Ok" /\ Lists(lines, old \cup {last.offset})

\* C10 witness: adding an offset that a full set already holds
C10_Witness ==
    /\ last.op = "add_offset" /\ last.res = "AlreadyExists"
    /\ Len(last.before) = capN /\ capN = GPIO_LINES_MAX

\* C11: remove_offset(o) fails with NotFound and leaves the set unchanged when
\* o is absent; when o is present it succeeds and the set is the old contents
\* without o, the other offsets in their original order.
C11_RemoveOffset ==
    last.op = "remove_offset" =>
        IF last.offset \in SeqRange(last.before)
        THEN /\ last.res = "Ok"
             /\ lines = SelectSeq(last.before, LAMBDA x : x # last.offset)
        ELSE last.res = "NotFound" /\ lines = last.before

\* C11 witness: an offset removed from between smaller and larger offsets
C11_Witness ==
    /\ last.op = "remove_offset" /\ last.res = "Ok"
    /\ Len(last.before) >= 3
    /\ last.before[1] < last.offset
    /\ last.offset < last.before[Len(last.before)]

\* C12: on a set S below its capacity and an offset o not in S, add_offset(o)
\* followed by remove_offset(o) both succeed and leave S as it was, contents
\* and order.
C12_AddRemoveRoundTrip ==
    (last.op = "add_then_remove"
       /\ Len(last.before) < capN
       /\ last.offset \notin SeqRange(last.before)) =>
        /\ last.res = <<"Ok", "Ok">>
        /\ lines = last.before

\* C12 witness: the round trip of an offset that goes between two offsets of
\* the set
C12_Witness ==
    /\ last.op = "add_then_remove" /\ last.res = <<"Ok", "Ok">>
    /\ last.offset \notin SeqRange(last.before)
    /\ last.before # <<>>
    /\ last.before[1] < last.offset
    /\ last.offset < last.before[Len(last.before)]

----------------------------------------------------------------------------
(* line/values.rs: MaskedBits.  bits and mask are u64 bit fields. *)

BitAnd(x, y) == x \cap y

BitOr(x, y) == x \cup y

BitXor(x, y) == (x \ y) \cup (y \ x)

MaskedBits_new(bits, mask) == [bits |-> bits, mask |-> mask]

MaskedBits_empty == [bits |-> {}, mask |-> {}]

\* the value of the expression 1u64 << bit: the shift amount is taken modulo 64
\* when the build does not check for overflow
Shl1(bit) == {bit % 64}

\* 1u64 << bit overflows: a panic in a build with overflow checks
ShlOverflows(bit) == bit >= 64

\* !x on a u64
BitNot(x) == (0..63) \ x

\* MaskedBits::bits()
MaskedBits_bits(self) == BitAnd(self.bits, self.mask)

get(self, bit) ==
    LET b == Shl1(bit) IN
    IF BitAnd(self.mask, b) # {} THEN Some(BitAnd(self.bits, b) # {}) ELSE None

with_bit_set(self, bit) ==
    LET b == Shl1(bit) IN [bits |-> BitOr(self.bits, b), mask |-> BitOr(self.mask, b)]

with_bit_cleared(self, bit) ==
    LET b == Shl1(bit) IN
    [bits |-> BitAnd(self.bits, BitNot(b)), mask |-> BitOr(self.mask, b)]

with_bit(self, bit, value) ==
    IF value THEN with_bit_set(self, bit) ELSE with_bit_cleared(self, bit)

set_bit(self, bit) ==
    LET b == Shl1(bit) IN [bits |-> BitOr(self.bits, b), mask |-> BitOr(self.mask, b)]

\* clear_bit that clears the value bit and leaves the mask alone
clear_bit_value_only(self, bit) ==
    LET b == Shl1(bit) IN [bits |-> BitAnd(self.bits, BitNot(b)), mask |-> self.mask]

clear_bit(self, bit) ==
    LET b == Shl1(bit) IN
    [bits |-> BitAnd(self.bits, BitNot(b)), mask |-> BitOr(self.mask, b)]

set_bit_value(self, bit, value) ==
    IF value THEN set_bit(self, bit) ELSE clear_bit(self, bit)

\* #[derive(PartialEq)] on MaskedBits: the fields are compared
eq(self, other) == self.bits = other.bits /\ self.mask = other.mask

\* #[derive(Debug)] on MaskedBits: the fields are printed
fmt(self) == [name |-> "MaskedBits", bits |-> self.bits, mask |-> self.mask]

\* MaskedBits::len: self.mask.count_ones()
MaskedBits_len(self) == Cardinality(self.mask)

\* iter that yields the mask bit in place of the value bit
iter_mask_bit(self) ==
    LET n == Cardinality(self.mask)
        nth(k) == CHOOSE idx \in self.mask : Cardinality({j \in self.mask : j < idx}) = k - 1
    IN  [k \in 1..n |-> <<nth(k), BitAnd(self.mask, Shl1(nth(k))) # {}>>]

\* MaskedBits::iter: the pairs (idx, value) of the masked-in indices, from 0 to 63
iter(self) ==
    LET n == Cardinality(self.mask)
        nth(k) == CHOOSE idx \in self.mask : Cardinality({j \in self.mask : j < idx}) = k - 1
    IN  [k \in 1..n |-> <<nth(k), BitAnd(self.bits, Shl1(nth(k))) # {}>>]

\* LineAttribute::Values(v).into_v2()
Values_into_v2(v) == [id |-> OUTPUT_VALUES, padding |-> 0, values |-> v.bits]

\* try_merge whose conflict test looks at one side only
try_merge_one_sided(self, other) ==
    LET s_bits == BitAnd(self.bits, self.mask)
        o_bits == BitAnd(other.bits, other.mask)
        conflicting == s_bits \ o_bits
    IN  IF conflicting # {}
        THEN [res |-> "InvalidData", val |-> MaskedBits_empty]
        ELSE [res |-> "Ok",
              val |-> [bits |-> BitOr(s_bits, o_bits), mask |-> BitOr(self.mask, other.mask)]]

try_merge(self, other) ==
    LET s_bits == BitAnd(self.bits, self.mask)
        o_bits == BitAnd(other.bits, other.mask)
        conflicting == BitXor(s_bits, o_bits)
    IN  IF conflicting # {}
        THEN [res |-> "InvalidData", val |-> MaskedBits_empty]
        ELSE [res |-> "Ok",
              val |-> [bits |-> BitOr(s_bits, o_bits), mask |-> BitOr(self.mask, other.mask)]]

\* a.try_merge(b)?.try_merge(c) : the first error ends the chain
try_merge_then(first, c) ==
    IF first.res # "Ok" THEN first ELSE try_merge(first.val, c)

\* b.try_merge(c) and then a.try_merge(that)
try_merge_into(a, second) ==
    IF second.res # "Ok" THEN second ELSE try_merge(a, second.val)

BitPositions == (0..MaxBit) \cup {63}

MaskedValues == {MaskedBits_new(bits, mask) : bits \in SUBSET BitPositions,
                                               mask \in SUBSET BitPositions}

NotMerged == [op |-> "none"]

NoCall == [op |-> "none"]

NoViews == [op |-> "none"]

InitBits ==
    /\ valA \in MaskedValues
    /\ valB \in MaskedValues
    /\ valC \in MaskedValues
    /\ merged = NotMerged
    /\ bitCall = NoCall
    /\ views = NoViews

NoBits ==
    /\ valA = MaskedBits_empty
    /\ valB = MaskedBits_empty
    /\ valC = MaskedBits_empty
    /\ merged = NotMerged
    /\ bitCall = NoCall
    /\ views = NoViews

TryMerge ==
    /\ merged = NotMerged
    /\ merged' = [op   |-> "try_merge",
                  ab   |-> try_merge(valA, valB),
                  ba   |-> try_merge(valB, valA),
                  ab_c |-> try_merge_then(try_merge(valA, valB), valC),
                  a_bc |-> try_merge_into(valA, try_merge(valB, valC))]
    /\ UNCHANGED <<valA, valB, valC, bitCall, views, otherThanBits>>

\* what each consumer of a MaskedBits makes of value v, valC being the other
\* operand of the merges
View(v) ==
    [fmt     |-> fmt(v),
     bits    |-> MaskedBits_bits(v),
     get     |-> [bit \in BitPositions |-> get(v, bit)],
     iter    |-> iter(v),
     again   |-> iter(v),
     len     |-> MaskedBits_len(v),
     merge   |-> try_merge(v, valC),
     merged  |-> try_merge(valC, v),
     into_v2 |-> Values_into_v2(v)]

\* valA == valB, and every consumer applied to valA and to valB
Observe ==
    /\ views = NoViews
    /\ views' = [op |-> "observe", eq |-> eq(valA, valB), a |-> View(valA), b |-> View(valB)]
    /\ UNCHANGED <<valA, valB, valC, merged, bitCall, otherThanBits>>

NextBits == TryMerge \/ Observe

\* The accessors of one MaskedBits value, valA.

InitOps ==
    /\ valA \in MaskedValues
    /\ valB = MaskedBits_empty
    /\ valC = MaskedBits_empty
    /\ merged = NotMerged
    /\ bitCall = NoCall
    /\ views = NoViews

\* a call on valA: the value before it, the written value if it writes one
BitCall(op, bit, written, ret) ==
    [op |-> op, bit |-> bit, written |-> written, before |-> valA, ret |-> ret]

Get ==
    /\ \E bit \in BitPositions :
          bitCall' = BitCall("get", bit, None, get(valA, bit))
    /\ UNCHANGED <<valA, valB, valC, merged, views, otherThanBits>>

SetBit ==
    /\ \E bit \in BitPositions :
          /\ valA' = set_bit(valA, bit)
          /\ bitCall' = BitCall("set_bit", bit, Some(TRUE), None)
    /\ UNCHANGED <<valB, valC, merged, views, otherThanBits>>

ClearBit ==
    /\ \E bit \in BitPositions :
          /\ valA' = clear_bit(valA, bit)
          /\ bitCall' = BitCall("clear_bit", bit, Some(FALSE), None)
    /\ UNCHANGED <<valB, valC, merged, views, otherThanBits>>

SetBitValue ==
    /\ \E bit \in BitPositions, value \in BOOLEAN :
          /\ valA' = set_bit_value(valA, bit, value)
          /\ bitCall' = BitCall("set_bit_value", bit, Some(value), None)
    /\ UNCHANGED <<valB, valC, merged, views, otherThanBits>>

\* v = v.with_bit_set(bit)
WithBitSet ==
    /\ \E bit \in BitPositions :
          /\ valA' = with_bit_set(valA, bit)
          /\ bitCall' = BitCall("with_bit_set", bit, Some(TRUE), None)
    /\ UNCHANGED <<valB, valC, merged, views, otherThanBits>>

\* v = v.with_bit_cleared(bit)
WithBitCleared ==
    /\ \E bit \in BitPositions :
          /\ valA' = with_bit_cleared(valA, bit)
          /\ bitCall' = BitCall("with_bit_cleared", bit, Some(FALSE), None)
    /\ UNCHANGED <<valB, valC, merged, views, otherThanBits>>

\* v = v.with_bit(bit, value)
WithBit ==
    /\ \E bit \in BitPositions, value \in BOOLEAN :
          /\ valA' = with_bit(valA, bit, value)
          /\ bitCall' = BitCall("with_bit", bit, Some(value), None)
    /\ UNCHANGED <<valB, valC, merged, views, otherThanBits>>

NextOps ==
    \/ Get \/ SetBit \/ ClearBit \/ SetBitValue
    \/ WithBitSet \/ WithBitCleared \/ WithBit

----------------------------------------------------------------------------
(* line/values.rs: impl AsValues for [(u32, bool)] *)

\* the offsets of the pairs of list that the set does not hold, in list order
MissingOffsets(list, set) ==
    LET absent == SelectSeq(list, LAMBDA pair : find_idx(set, pair[1]) = None)
    IN  [k \in 1..Len(absent) |-> absent[k][1]]

\* the for loop of values from the k-th pair on, bits being the value built so
\* far; checks says whether the build checks arithmetic for overflow
RECURSIVE values_loop(_, _, _, _, _)
values_loop(list, set, k, bits_so_far, checks) ==
    IF k > Len(list) THEN [res |-> "Ok", val |-> bits_so_far, msg |-> <<>>]
    ELSE LET offset == list[k][1]
             val    == list[k][2]
             v      == find_idx(set, offset)
         IN  IF v # None
             THEN IF ShlOverflows(v[1]) /\ checks
                  THEN [res |-> "Panic", val |-> bits_so_far, msg |-> <<>>]
                  ELSE values_loop(list, set, k + 1, set_bit_value(bits_so_far, v[1], val), checks)
             ELSE LET missing == MissingOffsets(SubSeq(list, k + 1, Len(list)), set)
                  IN  IF missing = <<>>
                      THEN [res |-> "Panic", val |-> bits_so_far, msg |-> <<>>]
                      ELSE [res |-> "NotFound", val |-> MaskedBits_empty, msg |-> missing]

values(list, set, checks) == values_loop(list, set, 1, MaskedBits_empty, checks)

PairLists(N) == SeqsUpTo(Offsets(N) \X BOOLEAN, MaxPairs)

\* a line set made by try_from_iter
InitValues ==
    /\ capN \in CapChoices
    /\ lines \in LineSets(capN)
    /\ panicked = FALSE
    /\ last = Idle
    /\ encoded = NotEncoded

\* list.values(&lines), in a build with or without overflow checks
Values ==
    /\ ~panicked
    /\ \E list \in PairLists(capN), checks \in BOOLEAN :
          LET r == values(list, lines, checks) IN
          /\ encoded' = [op |-> "values", list |-> list, res |-> r.res, val |-> r.val,
                         msg |-> r.msg]
          /\ panicked' = (r.res = "Panic")
    /\ UNCHANGED <<capN, lines, last, bitsVars, builderVars, strVars, acqVars, infoVars>>

NextValues == Values

----------------------------------------------------------------------------
(* fixed_str.rs: FixedStr<N>, here with N = GPIO_MAX_NAME_SIZE.  A &str is   *)
(* the sequence of its bytes.                                               *)

FixedStr_empty(N) == [i \in 1..N |-> 0]

\* self.s.iter().position(|c| *c == 0).unwrap_or(N)
FixedStr_len(self) ==
    IF \E i \in 1..Len(self) : self[i] = 0
    THEN (CHOOSE i \in 1..Len(self) : self[i] = 0 /\ \A j \in 1..(i - 1) : self[j] # 0) - 1
    ELSE Len(self)

FixedStr_write(self, str) ==
    LET N       == Len(self)
        l       == FixedStr_len(self)
        new_len == l + Len(str)
    IN  IF new_len > N
        THEN [res |-> "CapacityOverflow", s |-> self]
        ELSE [res |-> "Ok",
              s   |-> [i \in 1..N |-> IF l < i /\ i <= new_len THEN str[i - l] ELSE self[i]]]

FixedStr_new(N, str) ==
    LET w == FixedStr_write(FixedStr_empty(N), str) IN
    IF w.res # "Ok" THEN [res |-> w.res, s |-> FixedStr_empty(N)] ELSE w

into_byte_array(self) == self

\* find_nul: the index of the first zero byte, or the length
find_nul(s) ==
    IF \E i \in 1..Len(s) : s[i] = 0
    THEN (CHOOSE i \in 1..Len(s) : s[i] = 0 /\ \A j \in 1..(i - 1) : s[j] # 0) - 1
    ELSE Len(s)

\* b is a continuation byte within lo..hi
Continues(s, i, lo, hi) == i <= Len(s) /\ s[i] >= lo /\ s[i] <= hi

\* core::str::from_utf8(s).is_ok(), scanning from byte i (1-based)
RECURSIVE from_utf8(_, _)
from_utf8(s, i) ==
    IF i > Len(s) THEN TRUE
    ELSE LET b == s[i] IN
         IF b < 128 THEN from_utf8(s, i + 1)
         ELSE IF b >= 194 /\ b <= 223
              THEN Continues(s, i + 1, 128, 191) /\ from_utf8(s, i + 2)
         ELSE IF b >= 224 /\ b <= 239
              THEN /\ Continues(s, i + 1, IF b = 224 THEN 160 ELSE 128,
                                          IF b = 237 THEN 159 ELSE 191)
                   /\ Continues(s, i + 2, 128, 191)
                   /\ from_utf8(s, i + 3)
         ELSE IF b >= 240 /\ b <= 244
              THEN /\ Continues(s, i + 1, IF b = 240 THEN 144 ELSE 128,
                                          IF b = 244 THEN 143 ELSE 191)
                   /\ Continues(s, i + 2, 128, 191)
                   /\ Continues(s, i + 3, 128, 191)
                   /\ from_utf8(s, i + 4)
         ELSE FALSE

from_byte_array(bytes) ==
    LET N   == Len(bytes)
        nul == find_nul(bytes)
    IN  IF ~from_utf8(SubSeq(bytes, 1, nul), 1) THEN [res |-> "Utf8", s |-> bytes]
        ELSE [res |-> "Ok",
              s   |-> [i \in 1..N |-> IF nul < N /\ i > nul THEN 0 ELSE bytes[i]]]

\* self.s[0] != 0
is_empty(self) == self[1] # 0

\* bytes of a &str: NUL, "a" and "b"
StrBytes == {0, 97, 98}

\* "aaa...a" of n bytes with byte x in place of the byte at position p
Marked(n, p, x) == [i \in 1..n |-> IF i = p THEN x ELSE 97]

Strs ==
    SeqsUpTo(StrBytes, MaxShort)
      \cup {Marked(n, p, x) : n \in (GPIO_MAX_NAME_SIZE - StrSlack)..(GPIO_MAX_NAME_SIZE + StrSlack),
                               p \in {1, GPIO_MAX_NAME_SIZE - 1}, x \in StrBytes}

\* bytes of an array read from the kernel: NUL, "a", the two bytes of "e" with
\* an acute accent, and a byte that no UTF-8 text holds
WireBytes == {0, 97, 195, 169, 255}

\* an array of n bytes: head, then zero bytes, then tail
Padded(head, n, tail) ==
    [i \in 1..n |-> IF i <= Len(head) THEN head[i]
                    ELSE IF i > n - Len(tail) THEN tail[i - (n - Len(tail))]
                    ELSE 0]

\* the arrays [u8; GPIO_MAX_NAME_SIZE] given to from_byte_array
ByteArrays ==
    {Padded(head, GPIO_MAX_NAME_SIZE, tail) :
        head \in SeqsUpTo(WireBytes, MaxShort), tail \in {<<>>, <<97>>, <<255>>}}
      \cup {Marked(GPIO_MAX_NAME_SIZE, p, x) : p \in {1, GPIO_MAX_NAME_SIZE}, x \in WireBytes}

NoStrCall == [op |-> "none", writes |-> 0]

InitStr ==
    /\ fstr = None
    /\ strCall = NoStrCall

NoStr == InitStr

\* f = FixedStr::new(str)?
StrNew ==
    /\ \E str \in Strs :
          LET r == FixedStr_new(GPIO_MAX_NAME_SIZE, str) IN
          /\ fstr' = IF r.res = "Ok" THEN Some(r.s) ELSE None
          /\ strCall' = [op |-> "new", str |-> str, res |-> r.res, writes |-> 0]
    /\ UNCHANGED otherThanStr

\* f.write(str)
StrWrite ==
    /\ fstr # None
    /\ strCall.writes < MaxWrites
    /\ \E str \in Strs :
          LET r == FixedStr_write(fstr[1], str) IN
          /\ fstr' = Some(r.s)
          /\ strCall' = [op |-> "write", str |-> str, res |-> r.res,
                          writes |-> strCall.writes + 1]
    /\ UNCHANGED otherThanStr

\* f = FixedStr::from_byte_array(bytes)?
StrFromByteArray ==
    /\ \E bytes \in ByteArrays :
          LET r == from_byte_array(bytes) IN
          /\ fstr' = IF r.res = "Ok" THEN Some(r.s) ELSE None
          /\ strCall' = [op |-> "from_byte_array", str |-> bytes, res |-> r.res, writes |-> 0]
    /\ UNCHANGED otherThanStr

\* f.is_empty(), with f.len()
StrIsEmpty ==
    /\ fstr # None
    /\ strCall.op \in {"new", "write", "from_byte_array"}
    /\ strCall' = [op |-> "is_empty", str |-> strCall.str, res |-> is_empty(fstr[1]),
                    len |-> FixedStr_len(fstr[1]), writes |-> strCall.writes]
    /\ UNCHANGED <<fstr, otherThanStr>>

NextStr == StrNew \/ StrWrite \/ StrFromByteArray \/ StrIsEmpty

----------------------------------------------------------------------------
(* line/option_builder.rs and line/options.rs.  The type parameter Dir of   *)
(* LineOptionBuilder<Dir> is the field d; LineFlags is a u64 bit field.     *)

Active == {"High", "Low"}

EdgeDetect == {"Rising", "Falling", "Both"}

Drive == {"OpenDrain", "OpenSource"}

Bias == {"Disabled", "PullUp", "PullDown"}

EventClock == {"Default", "HardwareTimestampEngine", "RealTime"}

conv(self, O) == [self EXCEPT !.d = O]

LineOptionBuilder_new ==
    [d |-> "()", active |-> None, edge |-> None, bias |-> None,
     drive |-> None, clock |-> None]

input(self) == conv(self, "HasInput")

output(self) == conv(self, "HasDrivenOutput")

with_active(self, active) == [self EXCEPT !.active = Some(active)]

with_bias(self, bias) == [self EXCEPT !.bias = Some(bias)]

with_edge_detect(self, edge_detect) == [self EXCEPT !.edge = Some(edge_detect)]

with_clock_source(self, clock) == [self EXCEPT !.clock = Some(clock)]

with_drive(self, drive) == [self EXCEPT !.drive = Some(drive)]

\* with_drive_open that sets the drive and keeps the driven-output type
with_drive_open_same_type(self, drive) == [self EXCEPT !.drive = Some(drive)]

with_drive_open(self, drive) == conv([self EXCEPT !.drive = Some(drive)], "HasOpenOutput")

\* the match on self.active
ActiveFlags(self) == IF self.active = Some("Low") THEN {ACTIVE_LOW} ELSE {}

\* the match on self.bias
BiasFlags(self) ==
    IF self.bias = Some("PullDown") THEN {BIAS_PULL_DOWN}
    ELSE IF self.bias = Some("PullUp") THEN {BIAS_PULL_UP}
    ELSE {BIAS_DISABLED}

\* the match on self.edge
EdgeFlags(self) ==
    IF self.edge = Some("Both") THEN {EDGE_RISING, EDGE_FALLING}
    ELSE IF self.edge = Some("Rising") THEN {EDGE_RISING}
    ELSE IF self.edge = Some("Falling") THEN {EDGE_FALLING}
    ELSE {}

\* the match on self.drive
DriveFlags(self) ==
    IF self.drive = Some("OpenDrain") THEN {OPEN_DRAIN}
    ELSE IF self.drive = Some("OpenSource") THEN {OPEN_SOURCE}
    ELSE {}

\* the match on self.clock, taken when self.edge.is_some()
ClockFlags(self) ==
    IF self.edge # None
    THEN IF self.clock = Some("HardwareTimestampEngine") THEN {EVENT_CLOCK_HTE}
         ELSE IF self.clock = Some("RealTime") THEN {EVENT_CLOCK_REALTIME}
         ELSE {}
    ELSE {}

\* the input build_v2 without the default of the bias
build_v2_input_no_default_bias(self) ==
    {INPUT} \cup ActiveFlags(self)
            \cup (IF self.bias = None THEN {} ELSE BiasFlags(self))
            \cup EdgeFlags(self) \cup ClockFlags(self)

build_v2_input(self) ==
    {INPUT} \cup ActiveFlags(self) \cup BiasFlags(self) \cup EdgeFlags(self)
            \cup ClockFlags(self)

\* the open-output build_v2 that emits the clock whatever the edge detection
build_v2_open_output_clock_always(self) ==
    {OUTPUT} \cup ActiveFlags(self) \cup BiasFlags(self) \cup EdgeFlags(self)
             \cup DriveFlags(self)
             \cup (IF self.clock = Some("HardwareTimestampEngine") THEN {EVENT_CLOCK_HTE}
                   ELSE IF self.clock = Some("RealTime") THEN {EVENT_CLOCK_REALTIME}
                   ELSE {})

build_v2_open_output(self) ==
    {OUTPUT} \cup ActiveFlags(self) \cup BiasFlags(self) \cup EdgeFlags(self)
             \cup DriveFlags(self) \cup ClockFlags(self)

build_v2_driven_output(self) == {OUTPUT} \cup ActiveFlags(self)

\* AsLineOptions::build_v2 of the three builder types
build_v2(self) ==
    CASE self.d = "HasInput"        -> build_v2_input(self)
      [] self.d = "HasDrivenOutput" -> build_v2_driven_output(self)
      [] self.d = "HasOpenOutput"   -> build_v2_open_output(self)

InitBuilder ==
    /\ builder = LineOptionBuilder_new
    /\ lowered = None

NoBuilder == InitBuilder

\* the builder has not been moved into build_v2
Held == lowered = None

Call_input ==
    /\ Held /\ builder.d = "()"
    /\ builder' = input(builder)
    /\ UNCHANGED <<lowered, otherThanBuilder>>

Call_output ==
    /\ Held /\ builder.d = "()"
    /\ builder' = output(builder)
    /\ UNCHANGED <<lowered, otherThanBuilder>>

Input_with_active ==
    /\ Held /\ builder.d = "HasInput"
    /\ \E active \in Active : builder' = with_active(builder, active)
    /\ UNCHANGED <<lowered, otherThanBuilder>>

Input_with_bias ==
    /\ Held /\ builder.d = "HasInput"
    /\ \E bias \in Bias : builder' = with_bias(builder, bias)
    /\ UNCHANGED <<lowered, otherThanBuilder>>

Input_with_edge_detect ==
    /\ Held /\ builder.d = "HasInput"
    /\ \E edge_detect \in EdgeDetect : builder' = with_edge_detect(builder, edge_detect)
    /\ UNCHANGED <<lowered, otherThanBuilder>>

Input_with_clock_source ==
    /\ Held /\ builder.d = "HasInput"
    /\ \E clock \in EventClock : builder' = with_clock_source(builder, clock)
    /\ UNCHANGED <<lowered, otherThanBuilder>>

OpenOutput_with_active ==
    /\ Held /\ builder.d = "HasOpenOutput"
    /\ \E active \in Active : builder' = with_active(builder, active)
    /\ UNCHANGED <<lowered, otherThanBuilder>>

OpenOutput_with_drive ==
    /\ Held /\ builder.d = "HasOpenOutput"
    /\ \E drive \in Drive : builder' = with_drive(builder, drive)
    /\ UNCHANGED <<lowered, otherThanBuilder>>

OpenOutput_with_bias ==
    /\ Held /\ builder.d = "HasOpenOutput"
    /\ \E bias \in Bias : builder' = with_bias(builder, bias)
    /\ UNCHANGED <<lowered, otherThanBuilder>>

OpenOutput_with_edge_detect ==
    /\ Held /\ builder.d = "HasOpenOutput"
    /\ \E edge_detect \in EdgeDetect : builder' = with_edge_detect(builder, edge_detect)
    /\ UNCHANGED <<lowered, otherThanBuilder>>

OpenOutput_with_clock_source ==
    /\ Held /\ builder.d = "HasOpenOutput"
    /\ \E clock \in EventClock : builder' = with_clock_source(builder, clock)
    /\ UNCHANGED <<lowered, otherThanBuilder>>

DrivenOutput_with_active ==
    /\ Held /\ builder.d = "HasDrivenOutput"
    /\ \E active \in Active : builder' = with_active(builder, active)
    /\ UNCHANGED <<lowered, otherThanBuilder>>

DrivenOutput_with_drive_open ==
    /\ Held /\ builder.d = "HasDrivenOutput"
    /\ \E drive \in Drive : builder' = with_drive_open(builder, drive)
    /\ UNCHANGED <<lowered, otherThanBuilder>>

\* build_v2(self) takes the builder and returns the flags
Build_v2 ==
    /\ Held /\ builder.d # "()"
    /\ lowered' = Some(build_v2(builder))
    /\ UNCHANGED <<builder, otherThanBuilder>>

NextBuilder ==
    \/ Call_input \/ Call_output
    \/ Input_with_active \/ Input_with_bias
    \/ Input_with_edge_detect \/ Input_with_clock_source
    \/ OpenOutput_with_active \/ OpenOutput_with_drive \/ OpenOutput_with_bias
    \/ OpenOutput_with_edge_detect \/ OpenOutput_with_clock_source
    \/ DrivenOutput_with_active \/ DrivenOutput_with_drive_open
    \/ Build_v2

----------------------------------------------------------------------------
(* chip.rs: the line set of a request, and Lines::new.                       *)

\* chip::LineSet::from_iter
from_iter(into_iter) ==
    LET vec == SubSeq(into_iter, 1, Min(GPIO_LINES_MAX, Len(into_iter))) IN
    IF Len(into_iter) > Len(vec) THEN [res |-> "OutOfMemory", vec |-> <<>>]
    ELSE LET sorted == sort(vec)
             deduped == dedup(sorted)
         IN  IF Len(deduped) # Len(sorted) THEN [res |-> "InvalidInput", vec |-> <<>>]
             ELSE [res |-> "Ok", vec |-> deduped]

\* to_api_v2 that leaves the count at zero
to_api_v2_no_count(self) ==
    [len   |-> 0,
     lines |-> [i \in 1..GPIO_LINES_MAX |-> IF i <= Len(self) THEN self[i] ELSE 0]]

to_api_v2(self) ==
    [len   |-> Len(self),
     lines |-> [i \in 1..GPIO_LINES_MAX |-> IF i <= Len(self) THEN self[i] ELSE 0]]

gpio_line_request_zeroed ==
    [offsets           |-> [i \in 1..GPIO_LINES_MAX |-> 0],
     consumer          |-> [i \in 1..GPIO_MAX_NAME_SIZE |-> 0],
     flags             |-> {},
     num_attrs         |-> 0,
     num_lines         |-> 0,
     event_buffer_size |-> 0,
     padding           |-> 0,
     fd                |-> 0]

\* Lines::new up to the ioctl: the request, or the error of the first `?`
lower(consumer, options, offsets) ==
    LET got == from_iter(offsets) IN
    IF got.res # "Ok" THEN [res |-> got.res, req |-> gpio_line_request_zeroed]
    ELSE LET api  == to_api_v2(got.vec)
             req1 == [gpio_line_request_zeroed EXCEPT
                         !.num_lines = api.len,
                         !.offsets   = api.lines,
                         !.flags     = build_v2(options)]
             str  == FixedStr_new(GPIO_MAX_NAME_SIZE, consumer)
         IN  IF str.res # "Ok" THEN [res |-> "InvalidData", req |-> req1]
             ELSE [res |-> "Ok",
                   req |-> [req1 EXCEPT !.consumer = into_byte_array(str.s)]]

\* the `?` on the result of the ioctl, were a failed call issued again
after_call_retry(result) == IF result.res = "Ok" THEN "Called" ELSE "Lowered"

\* the `?` on the result of the ioctl
after_call(result) == IF result.res = "Ok" THEN "Called" ELSE "Failed"

\* the descriptors a Lines value owns: its fields are a ChipRef, which borrows
\* the descriptor of the chip, and the offsets S
OwnedFds(h) == {}

\* drop of each descriptor in fds: close(fd), recorded after those in done
RECURSIVE close_all(_, _)
close_all(fds, done) ==
    IF fds = {} THEN done
    ELSE LET fd == CHOOSE x \in fds : TRUE IN close_all(fds \ {fd}, Append(done, fd))

\* the errors of the ioctl
Errnos == {"EBUSY", "EINVAL"}

\* what the kernel answers: an error, or a new descriptor written to req.fd
KernelResults ==
    {[res |-> e, fd |-> 0] : e \in Errnos}
      \cup {[res |-> "Ok", fd |-> fd] : fd \in 3..(2 + MaxFds)}

\* the options given: builders of the three types
OptionChoices ==
    {input(LineOptionBuilder_new),
     with_edge_detect(input(LineOptionBuilder_new), "Both"),
     output(LineOptionBuilder_new),
     with_active(output(LineOptionBuilder_new), "Low"),
     with_drive_open(output(LineOptionBuilder_new), "OpenDrain")}

\* the offsets given: short slices, and runs of about GPIO_LINES_MAX offsets
OffsetChoices ==
    SeqsUpTo(0..MaxOffset, SmallCap)
      \cup {Strided(0, n, 1) : n \in LongLens}
      \cup {Reversed(Strided(0, n, 2)) : n \in LongLens}

NoAcquire ==
    /\ pc = "Unopened"
    /\ args = [consumer |-> <<>>, options |-> input(LineOptionBuilder_new), offsets |-> <<>>]
    /\ req = gpio_line_request_zeroed
    /\ issued = <<>>
    /\ kernelFds = {}
    /\ closes = <<>>
    /\ handle = None
    /\ returned = None

InitAcquire ==
    /\ pc = "Unopened"
    /\ args \in [consumer : Strs, options : OptionChoices, offsets : OffsetChoices]
    /\ req = gpio_line_request_zeroed
    /\ issued = <<>>
    /\ kernelFds = {}
    /\ closes = <<>>
    /\ handle = None
    /\ returned = None

\* Lines::new from its entry to the ioctl
Lower ==
    /\ pc = "Unopened"
    /\ LET l == lower(args.consumer, args.options, args.offsets) IN
         /\ req' = l.req
         /\ pc' = IF l.res = "Ok" THEN "Lowered" ELSE "Failed"
         /\ returned' = IF l.res = "Ok" THEN returned ELSE Some(l.res)
    /\ UNCHANGED <<args, issued, kernelFds, closes, handle, otherThanAcq>>

\* uapi::v2::gpio_get_line(chip.as_raw_fd(), &mut req)?
Ioctl ==
    /\ pc = "Lowered"
    /\ \E result \in KernelResults :
          /\ issued' = Append(issued, [req |-> req, result |-> result])
          /\ req' = IF result.res = "Ok" THEN [req EXCEPT !.fd = result.fd] ELSE req
          /\ kernelFds' = IF result.res = "Ok" THEN kernelFds \cup {result.fd} ELSE kernelFds
          /\ pc' = after_call(result)
          /\ returned' = IF result.res = "Ok" THEN returned ELSE Some(result.res)
    /\ UNCHANGED <<args, closes, handle, otherThanAcq>>

\* Ok(Self { chip, offsets }); req goes out of scope
Wrap ==
    /\ pc = "Called"
    /\ handle' = Some([chip |-> "ChipRef", offsets |-> args.offsets])
    /\ returned' = Some("Ok")
    /\ pc' = "Open"
    /\ UNCHANGED <<args, req, issued, kernelFds, closes, otherThanAcq>>

\* lines.get_info(), the one method of Lines
GetInfo ==
    /\ pc = "Open"
    /\ UNCHANGED vars

\* the Lines value goes out of scope: its fields are dropped
Drop ==
    /\ pc = "Open"
    /\ closes' = close_all(OwnedFds(handle[1]), closes)
    /\ kernelFds' = kernelFds \ OwnedFds(handle[1])
    /\ handle' = None
    /\ pc' = "Closed"
    /\ UNCHANGED <<args, req, issued, returned, otherThanAcq>>

NextAcquire == Lower \/ Ioctl \/ Wrap \/ GetInfo \/ Drop

----------------------------------------------------------------------------
(* line/info.rs: LineInfo and its attributes, to and from gpio_line_info.    *)
(* A gpio_line_attribute is [id, padding, raw], raw being the 64 bits of the *)
(* union as the set of their positions; a u32 is the set of its 1-bits.      *)

\* the u32 read from the low half of the union, as the set of its 1-bits
debounce_period(raw) == {i \in raw : i < 32}

Debounce_new_micros(micros) == [d |-> micros]

as_micros(self) == self.d

\* LineAttribute::new_v2 that takes every unknown identifier for a flags attribute
new_v2_lenient(attr) ==
    IF attr.id = OUTPUT_VALUES
    THEN [res |-> "Ok", kind |-> "Values", v |-> [bits |-> attr.raw, mask |-> 0..63]]
    ELSE IF attr.id = DEBOUNCE
    THEN [res |-> "Ok", kind |-> "Debounce", v |-> Debounce_new_micros(debounce_period(attr.raw))]
    ELSE [res |-> "Ok", kind |-> "Flags", v |-> attr.raw]

\* LineAttribute::new_v2
new_v2(attr) ==
    IF attr.id = FLAGS
    THEN [res |-> "Ok", kind |-> "Flags", v |-> attr.raw]
    ELSE IF attr.id = OUTPUT_VALUES
    THEN [res |-> "Ok", kind |-> "Values", v |-> [bits |-> attr.raw, mask |-> 0..63]]
    ELSE IF attr.id = DEBOUNCE
    THEN [res |-> "Ok", kind |-> "Debounce", v |-> Debounce_new_micros(debounce_period(attr.raw))]
    ELSE [res |-> "Unsupported", kind |-> "none", v |-> attr.id]

\* LineAttribute::into_v2; uninit is what the half of the union that a
\* debounce period leaves unwritten happens to hold
LineAttribute_into_v2(kind, v, uninit) ==
    IF kind = "Flags" THEN [id |-> FLAGS, padding |-> 0, raw |-> v]
    ELSE IF kind = "Values" THEN [id |-> OUTPUT_VALUES, padding |-> 0, raw |-> Values_into_v2(v).values]
    ELSE [id |-> DEBOUNCE, padding |-> 0, raw |-> as_micros(v) \cup uninit]

\* LineAttributes::default()
LineAttributes_default == [flags |-> None, values |-> None, debounce |-> None]

\* the closure of try_fold that overwrites the flags override
fold_step_flags_overwrite(acc, f) ==
    IF f.kind = "Flags" THEN [acc EXCEPT !.flags = Some(f.v)]
    ELSE IF f.kind = "Values" THEN [acc EXCEPT !.values = Some(f.v)]
    ELSE [acc EXCEPT !.debounce = Some(f.v)]

\* the closure of try_fold, on a decoded attribute
fold_step(acc, f) ==
    IF f.kind = "Flags"
    THEN [acc EXCEPT !.flags = IF acc.flags = None THEN Some(f.v)
                                ELSE Some(acc.flags[1] \cup f.v)]
    ELSE IF f.kind = "Values" THEN [acc EXCEPT !.values = Some(f.v)]
    ELSE [acc EXCEPT !.debounce = Some(f.v)]

\* try_fold over the attributes from the i-th (1-based) to the n-th
RECURSIVE try_fold(_, _, _, _)
try_fold(acc, attrs, i, n) ==
    IF i > n THEN [res |-> "Ok", attrs |-> acc]
    ELSE LET f == new_v2(attrs[i]) IN
         IF f.res # "Ok" THEN [res |-> f.res, attrs |-> LineAttributes_default]
         ELSE try_fold(fold_step(acc, f), attrs, i + 1, n)

\* LineAttributes::from_attr_list
from_attr_list(n_attrs, attrs) ==
    try_fold(LineAttributes_default, attrs, 1, Min(n_attrs, Len(attrs)))

LineInfo_empty ==
    [name     |-> FixedStr_empty(GPIO_MAX_NAME_SIZE),
     consumer |-> FixedStr_empty(GPIO_MAX_NAME_SIZE),
     offset   |-> 0,
     flags    |-> {},
     attrs    |-> LineAttributes_default]

\* LineInfo::from_v2
LineInfo_from_v2(w) ==
    LET name     == from_byte_array(w.name)
        consumer == from_byte_array(w.name)
        attrs    == from_attr_list(w.num_attrs, w.attrs)
    IN  IF name.res # "Ok" THEN [res |-> "InvalidData", v |-> LineInfo_empty]
        ELSE IF consumer.res # "Ok" THEN [res |-> "InvalidData", v |-> LineInfo_empty]
        ELSE IF attrs.res # "Ok" THEN [res |-> attrs.res, v |-> LineInfo_empty]
        ELSE [res |-> "Ok",
              v   |-> [name |-> name.s, consumer |-> consumer.s, offset |-> w.offset,
                       flags |-> w.flags, attrs |-> attrs.attrs]]

gpio_line_attribute_zeroed == [id |-> 0, padding |-> 0, raw |-> {}]

\* LineInfo::into_v2
LineInfo_into_v2(self, uninit) ==
    LET a == (IF self.attrs.debounce = None THEN <<>>
              ELSE <<LineAttribute_into_v2("Debounce", self.attrs.debounce[1], uninit)>>)
             \o (IF self.attrs.values = None THEN <<>>
                 ELSE <<LineAttribute_into_v2("Values", self.attrs.values[1], uninit)>>)
    IN  [name      |-> into_byte_array(self.name),
         consumer  |-> into_byte_array(self.consumer),
         offset    |-> self.offset,
         num_attrs |-> Len(a),
         flags     |-> IF self.attrs.flags = None THEN self.flags ELSE self.attrs.flags[1],
         attrs     |-> [i \in 1..GPIO_LINE_NUM_ATTRS_MAX |->
                           IF i <= Len(a) THEN a[i] ELSE gpio_line_attribute_zeroed],
         padding   |-> 0]

\* the queries of LineInfo
LineInfo_name(self) == IF is_empty(self.name) THEN None ELSE Some(SubSeq(self.name, 1, FixedStr_len(self.name)))

LineInfo_consumer(self) ==
    IF is_empty(self.name) THEN None
    ELSE Some(SubSeq(self.consumer, 1, FixedStr_len(self.consumer)))

LineInfo_flags(self) == IF self.attrs.flags = None THEN self.flags ELSE self.attrs.flags[1]

direction(self) == IF OUTPUT \in self.flags THEN "Output" ELSE "Input"

is_used(self) == USED \in self.flags

is_active_low(self) == ACTIVE_LOW \in self.flags

is_open_drain(self) == OPEN_DRAIN \in self.flags

is_open_source(self) == OPEN_SOURCE \in self.flags

\* The records given to the codec.

\* the 64 bits of a flags word or of the union of an attribute
RawChoices == {{}, {USED, OUTPUT, OPEN_DRAIN}, {ACTIVE_LOW, OPEN_SOURCE, 63}}

\* attributes with the three known identifiers and one unknown
AttrEntries == {[id |-> i, padding |-> 0, raw |-> r] : i \in FLAGS..(DEBOUNCE + 1), r \in RawChoices \ {{}}}

\* the array attrs: the entries of body, then zeroed entries
AttrArray(body) ==
    [i \in 1..GPIO_LINE_NUM_ATTRS_MAX |->
        IF i <= Len(body) THEN body[i] ELSE gpio_line_attribute_zeroed]

\* an array full of known attributes: the identifiers in rotation from k
FullArray(k) ==
    [i \in 1..GPIO_LINE_NUM_ATTRS_MAX |->
        [id      |-> FLAGS + ((i + k) % DEBOUNCE),
         padding |-> 0,
         raw     |-> IF i % 2 = 0 THEN {USED, OUTPUT, OPEN_DRAIN} ELSE {ACTIVE_LOW, OPEN_SOURCE, 63}]]

\* num_attrs and attrs: short lists with every count up to one past their
\* length, and full arrays with a count of about GPIO_LINE_NUM_ATTRS_MAX
AttrLists(longest) ==
    {[num_attrs |-> n, attrs |-> AttrArray(body)] :
        body \in SeqsUpTo(AttrEntries, longest), n \in 0..(longest + 1)}
      \cup {[num_attrs |-> n, attrs |-> FullArray(k)] :
              k \in 0..1,
              n \in (GPIO_LINE_NUM_ATTRS_MAX - AttrSlack)..(GPIO_LINE_NUM_ATTRS_MAX + AttrSlack)}

\* name and consumer arrays: empty, a text, a text with a byte after the NUL,
\* and bytes that are no UTF-8
NameArrays ==
    {Padded(head, GPIO_MAX_NAME_SIZE, tail) :
        head \in {<<>>, <<97>>, <<98, 98>>, <<255>>}, tail \in {<<>>, <<97>>}}

\* the gpio_line_info records read from the kernel: every attribute list with
\* one name and consumer, and every name and consumer with the shortest lists
WireInfos ==
    {[name |-> Padded(<<97>>, GPIO_MAX_NAME_SIZE, <<>>),
      consumer |-> Padded(<<98, 98>>, GPIO_MAX_NAME_SIZE, <<>>),
      offset |-> MaxOffset, num_attrs |-> l.num_attrs, flags |-> f, attrs |-> l.attrs,
      padding |-> 0] : l \in AttrLists(MaxAttrs), f \in {{INPUT, ACTIVE_LOW}}}
      \cup
    {[name |-> nm, consumer |-> cs, offset |-> MaxOffset, num_attrs |-> l.num_attrs,
      flags |-> f, attrs |-> l.attrs, padding |-> 0] :
        nm \in NameArrays, cs \in NameArrays, l \in AttrLists(0), f \in RawChoices}

\* the LineInfo values with a name, a consumer, flags and optional attributes
LineInfos ==
    {[name     |-> Padded(nm, GPIO_MAX_NAME_SIZE, <<>>),
      consumer |-> Padded(cs, GPIO_MAX_NAME_SIZE, <<>>),
      offset   |-> MaxOffset,
      flags    |-> f,
      attrs    |-> [flags |-> af, values |-> av, debounce |-> ad]] :
        nm \in {<<>>, <<97>>}, cs \in {<<>>, <<97>>, <<98, 98>>},
        f \in RawChoices \ {{}},
        af \in {None, Some({USED, OUTPUT, OPEN_DRAIN})},
        av \in {None} \cup {Some(v) : v \in {[bits |-> {0}, mask |-> 0..63],
                                              [bits |-> {0}, mask |-> {0, 1}]}},
        ad \in {None, Some(Debounce_new_micros({0, 2}))}}

\* what the bytes a debounce period leaves unwritten may hold
UninitChoices == {{}, {63}}

NoInfo ==
    /\ given = [kind |-> "none"]
    /\ wire = None
    /\ info = None
    /\ rewire = None
    /\ answers = None

InitInfo ==
    /\ given \in {[kind |-> "wire", v |-> w] : w \in WireInfos}
                  \cup {[kind |-> "info", v |-> x] : x \in LineInfos}
    /\ wire = IF given.kind = "wire" THEN Some(given.v) ELSE None
    /\ info = None
    /\ rewire = None
    /\ answers = None

\* wire = x.into_v2()
Encode ==
    /\ given.kind = "info" /\ wire = None
    /\ \E uninit \in UninitChoices : wire' = Some(LineInfo_into_v2(given.v, uninit))
    /\ UNCHANGED <<given, info, rewire, answers, otherThanInfo>>

\* LineInfo::from_v2(wire)
Decode ==
    /\ wire # None /\ info = None
    /\ info' = Some(LineInfo_from_v2(wire[1]))
    /\ UNCHANGED <<given, wire, rewire, answers, otherThanInfo>>

\* the decoded LineInfo, into_v2 again
Reencode ==
    /\ info # None /\ rewire = None
    /\ info[1].res = "Ok"
    /\ \E uninit \in UninitChoices : rewire' = Some(LineInfo_into_v2(info[1].v, uninit))
    /\ UNCHANGED <<given, wire, info, answers, otherThanInfo>>

\* the queries on the decoded LineInfo
Query ==
    /\ info # None /\ answers = None
    /\ info[1].res = "Ok"
    /\ answers' = Some([name           |-> LineInfo_name(info[1].v),
                         consumer       |-> LineInfo_consumer(info[1].v),
                         flags          |-> LineInfo_flags(info[1].v),
                         direction      |-> direction(info[1].v),
                         is_used        |-> is_used(info[1].v),
                         is_active_low  |-> is_active_low(info[1].v),
                         is_open_drain  |-> is_open_drain(info[1].v),
                         is_open_source |-> is_open_source(info[1].v)])
    /\ UNCHANGED <<given, wire, info, rewire, otherThanInfo>>

NextInfo == Encode \/ Decode \/ Reencode \/ Query

----------------------------------------------------------------------------
(* Properties of MaskedBits *)

\* x and y give different values to an index that both mask in
Disagree(x, y) == \E i \in x.mask \cap y.mask : (i \in x.bits) # (i \in y.bits)

\* what a result shows: the error, or the mask and the bits under the mask
Shown(r) == [res |-> r.res, mask |-> r.val.mask, bits |-> r.val.bits \cap r.val.mask]

\* C4: try_merge(a, b) fails with the conflict error exactly when some index
\* masked in by both carries different values; otherwise it succeeds with the
\* union of the masks and, at each masked-in index, the value of the input
\* that specifies it.
C4_MergeFailsOnlyOnDisagreement ==
    merged.op = "try_merge" =>
        /\ merged.ab.res = "InvalidData" <=> Disagree(valA, valB)
        /\ ~Disagree(valA, valB) =>
              /\ merged.ab.res = "Ok"
              /\ merged.ab.val.mask = valA.mask \cup valB.mask
              /\ \A i \in merged.ab.val.mask :
                    (i \in merged.ab.val.bits) <=>
                        IF i \in valA.mask THEN i \in valA.bits ELSE i \in valB.bits

\* C5: over inputs that do not disagree, try_merge is commutative and
\* associative in what its result shows; inputs that disagree fail in
\* either order.
C5_MergeCommutesAndAssociates ==
    merged.op = "try_merge" =>
        /\ ~Disagree(valA, valB) => Shown(merged.ab) = Shown(merged.ba)
        /\ (~Disagree(valA, valB) /\ ~Disagree(valB, valC) /\ ~Disagree(valA, valC))
              => Shown(merged.ab_c) = Shown(merged.a_bc)
        /\ Disagree(valA, valB)
              => merged.ab.res = "InvalidData" /\ merged.ba.res = "InvalidData"

\* C5 witness: values with different masks, one of them with a bit set outside
\* its mask, merged successfully in both orders and both groupings into a
\* value with a bit set
C5_Witness ==
    /\ merged.op = "try_merge"
    /\ merged.ab_c.res = "Ok" /\ merged.a_bc.res = "Ok" /\ merged.ba.res = "Ok"
    /\ valA.mask # valB.mask
    /\ valC.bits \ valC.mask # {}
    /\ merged.ab_c.val.bits # {}

\* C13: get(i) is None exactly when mask bit i is unset and otherwise Some of
\* value bit i; after set_bit(i), clear_bit(i), set_bit_value(i, v) or a
\* with_bit* form, get(i) is Some of the written value and get(j) of every
\* other index j is what it was before.
C13_GetSetClear ==
    /\ bitCall.op = "get" =>
          /\ bitCall.ret = None <=> bitCall.bit \notin valA.mask
          /\ bitCall.ret # None => bitCall.ret = Some(bitCall.bit \in valA.bits)
    /\ bitCall.op \notin {"none", "get"} =>
          /\ get(valA, bitCall.bit) = bitCall.written
          /\ \A j \in BitPositions \ {bitCall.bit} :
                get(valA, j) = get(bitCall.before, j)

\* C13 witness: clear_bit on an index that was not masked in, its value bit
\* set, beside an index that is masked in
C13_Witness ==
    /\ bitCall.op = "clear_bit"
    /\ bitCall.bit \notin bitCall.before.mask
    /\ bitCall.bit \in bitCall.before.bits
    /\ bitCall.before.mask # {}

\* C14: two MaskedBits with the same mask and the same bits under the mask
\* compare equal, have the same debug view, and give the same bits(), get,
\* iter, try_merge results and wire encoding, whatever their bits outside the
\* mask are.
C14_UnmaskedBitsIgnored ==
    (views.op = "observe"
       /\ valA.mask = valB.mask
       /\ valA.bits \cap valA.mask = valB.bits \cap valB.mask) =>
        /\ views.eq
        /\ views.a = views.b

----------------------------------------------------------------------------
(* Properties of AsValues for [(u32, bool)] *)

Listed(list) == {list[k][1] : k \in 1..Len(list)}

\* the bool given for offset o by list: that of the last pair that names o
Given(list, o) ==
    list[CHOOSE k \in 1..Len(list) :
            list[k][1] = o /\ \A j \in (k + 1)..Len(list) : list[j][1] # o][2]

\* the position of offset o in the ascending set: the number of smaller offsets
Position(set, o) == Cardinality({i \in 1..Len(set) : set[i] < o})

\* C15: encoding a list of (offset, bool) pairs whose offsets are all in the
\* line set gives a MaskedBits whose mask is exactly the positions of the
\* listed offsets in the ascending set and whose value bit at each of these
\* positions is the bool given for the offset.
C15_ValuesEncodeByPosition ==
    (encoded.op = "values" /\ Listed(encoded.list) \subseteq SeqRange(lines)) =>
        /\ encoded.res = "Ok"
        /\ encoded.val.mask = {Position(lines, o) : o \in Listed(encoded.list)}
        /\ \A o \in Listed(encoded.list) :
              (Position(lines, o) \in encoded.val.bits) <=> Given(encoded.list, o)

\* C16: encoding a list that names an offset absent from the line set returns
\* the NotFound error and never panics, however many offsets are absent and
\* wherever they are in the list.
C16_AbsentOffsetIsNotFound ==
    (encoded.op = "values" /\ ~(Listed(encoded.list) \subseteq SeqRange(lines))) =>
        encoded.res = "NotFound"

\* C26: iter yields exactly the pairs (i, b) with mask bit i set and b the
\* value bit i, each index once and in ascending order; the number of pairs
\* is len(), the population count of the mask; and a second call of iter on
\* the same value yields the same sequence.
C26_IterMaskedAscending ==
    views.op = "observe" =>
        LET it == views.a.iter IN
        /\ {it[k][1] : k \in 1..Len(it)} = valA.mask
        /\ \A k \in 1..Len(it) : it[k][2] = (it[k][1] \in valA.bits)
        /\ \A k \in 1..(Len(it) - 1) : it[k][1] < it[k + 1][1]
        /\ Len(it) = views.a.len
        /\ views.a.len = Cardinality(valA.mask)
        /\ views.a.again = it

C26_Witness ==
    /\ views.op = "observe"
    /\ Len(views.a.iter) = 2
    /\ views.a.iter[1][2] # views.a.iter[2][2]
    /\ views.a.again = views.a.iter

----------------------------------------------------------------------------
(* Properties of FixedStr *)

\* C20: FixedStr::<32>::new rejects every label longer than 31 bytes with the
\* capacity-overflow error, so an accepted label is at most 31 bytes long and
\* is stored followed by at least one zero byte in the 32-byte field.
C20_LabelAtMost31Bytes ==
    strCall.op = "new" =>
        /\ Len(strCall.str) > GPIO_MAX_NAME_SIZE - 1 => strCall.res = "CapacityOverflow"
        /\ strCall.res = "Ok" =>
              /\ Len(strCall.str) <= GPIO_MAX_NAME_SIZE - 1
              /\ fstr # None
              /\ SubSeq(fstr[1], 1, Len(strCall.str)) = strCall.str
              /\ \A i \in (Len(strCall.str) + 1)..GPIO_MAX_NAME_SIZE : fstr[1][i] = 0

----------------------------------------------------------------------------
(* Properties of the acquisition of lines *)

\* Lines::new has returned
Returned == pc \in {"Failed", "Open", "Closed"}

\* the steps of a handle: acquisition in progress counts as Unopened
HandleStep ==
    \/ pc' = pc
    \/ pc \in {"Unopened", "Lowered", "Called"} /\ pc' \in {"Lowered", "Called", "Open", "Failed"}
    \/ pc = "Open" /\ pc' = "Closed"

\* C17: a line handle follows Unopened -> Open -> Closed.  An Open handle owns
\* exactly the descriptor the kernel returned in the request's fd field, with
\* the offsets of the request; dropping it closes that descriptor exactly
\* once; Closed is terminal; and once the acquisition has returned no
\* descriptor the kernel handed out is open without a handle that owns it.
C17_HandleLifecycle ==
    /\ [](pc = "Open" =>
            /\ handle # None
            /\ OwnedFds(handle[1]) = {req.fd}
            /\ handle[1].offsets = args.offsets)
    /\ [](pc = "Closed" => handle = None /\ closes = <<req.fd>> /\ kernelFds = {})
    /\ [](Returned => \A fd \in kernelFds : handle # None /\ fd \in OwnedFds(handle[1]))
    /\ [][HandleStep]_vars

\* at most GPIO_LINES_MAX offsets, no offset twice
OffsetsValid(offsets) ==
    /\ Len(offsets) <= GPIO_LINES_MAX
    /\ \A i, j \in 1..Len(offsets) : offsets[i] = offsets[j] => i = j

LoweringErrors == {"OutOfMemory", "InvalidInput", "InvalidData"}

\* C18: an acquisition lowers its arguments into a request, then issues the
\* control call, then wraps the result.  The call is issued at most once and
\* not again after it failed; it is not issued when lowering fails (offsets
\* that are no valid set, or a label that does not fit the field); and when
\* the call returns an error, that error is returned and no handle is made.
C18_AcquisitionOrder ==
    /\ [](Len(issued) <= 1)
    /\ []((~OffsetsValid(args.offsets) \/ Len(args.consumer) > GPIO_MAX_NAME_SIZE) =>
            /\ issued = <<>> /\ handle = None
            /\ pc \in {"Unopened", "Failed"})
    /\ [](pc = "Failed" /\ issued = <<>> =>
            handle = None /\ \E e \in LoweringErrors : returned = Some(e))
    /\ [](issued # <<>> /\ issued[1].result.res # "Ok" =>
            /\ handle = None
            /\ pc = "Failed"
            /\ returned = Some(issued[1].result.res))
    /\ [](handle # None => issued # <<>> /\ issued[1].result.res = "Ok")
    /\ [][issued' # issued => pc = "Lowered" /\ pc' \in {"Called", "Failed"}]_vars
    /\ [][handle' # None /\ handle = None => pc = "Called" /\ pc' = "Open"]_vars

C18_Witness ==
    /\ pc = "Failed"
    /\ Len(issued) = 1
    /\ issued[1].result.res = "EBUSY"
    /\ returned = Some("EBUSY")
    /\ handle = None

\* the offsets given to the acquisition, as a set
OffsetSet == {args.offsets[i] : i \in 1..Len(args.offsets)}

\* C19: the request handed to the control call has num_lines equal to the
\* number of offsets of the set; its first num_lines offsets are the offsets
\* of the set in ascending order and every later slot is zero; its flags are
\* the lowered flags of the options; its consumer is the bytes of the label
\* followed by zero bytes up to GPIO_MAX_NAME_SIZE; and num_attrs,
\* event_buffer_size and the padding are zero.
C19_RequestFields ==
    \A k \in 1..Len(issued) :
        LET r == issued[k].req
            n == Cardinality(OffsetSet)
        IN  /\ r.num_lines = n
            /\ Len(r.offsets) = GPIO_LINES_MAX
            /\ {r.offsets[i] : i \in 1..n} = OffsetSet
            /\ \A i \in 1..(n - 1) : r.offsets[i] < r.offsets[i + 1]
            /\ \A i \in (n + 1)..GPIO_LINES_MAX : r.offsets[i] = 0
            /\ r.flags = build_v2(args.options)
            /\ Len(r.consumer) = GPIO_MAX_NAME_SIZE
            /\ \A i \in 1..GPIO_MAX_NAME_SIZE :
                  r.consumer[i] = IF i <= Len(args.consumer) THEN args.consumer[i] ELSE 0
            /\ r.num_attrs = 0
            /\ r.event_buffer_size = 0
            /\ r.padding = 0

\* C25: the offset set built from the caller's offsets is sorted and
\* deduplicated on construction: an input of at most GPIO_LINES_MAX items,
\* also one that repeats an offset, is accepted, and the set holds each
\* distinct offset once, in ascending order.
C25_FromIterDeduplicates ==
    (pc # "Unopened" /\ Len(args.offsets) <= GPIO_LINES_MAX) =>
        LET n == Cardinality(OffsetSet) IN
        /\ returned \notin {Some("InvalidInput"), Some("OutOfMemory")}
        /\ req.num_lines = n
        /\ {req.offsets[i] : i \in 1..n} = OffsetSet
        /\ \A i \in 1..(n - 1) : req.offsets[i] < req.offsets[i + 1]

C19_Witness ==
    /\ Len(issued) = 1
    /\ args.offsets = <<MaxOffset, 0>>
    /\ issued[1].req.num_lines = 2
    /\ args.consumer = <<97, 98>>
    /\ EDGE_RISING \in issued[1].req.flags

\* the bytes before the first NUL of the array given to from_byte_array
BeforeNul(bytes) == SubSeq(bytes, 1, find_nul(bytes))

\* C21: from_byte_array fails when the bytes before the first NUL are not
\* valid UTF-8, fails as malformed when a byte after the first NUL is not
\* zero, and succeeds only for valid UTF-8 followed by zero bytes alone.
C21_DecodeRejectsMalformed ==
    strCall.op = "from_byte_array" =>
        LET bytes    == strCall.str
            nul      == find_nul(bytes)
            trailing == \E i \in (nul + 1)..Len(bytes) : bytes[i] # 0
        IN  /\ ~from_utf8(BeforeNul(bytes), 1) => strCall.res = "Utf8"
            /\ (from_utf8(BeforeNul(bytes), 1) /\ trailing) => strCall.res = "Malformed"
            /\ strCall.res = "Ok" <=> (from_utf8(BeforeNul(bytes), 1) /\ ~trailing)

\* C30: is_empty() is true exactly when len() is 0, that is when the first
\* byte is NUL.
C30_IsEmptyIffLenZero ==
    strCall.op = "is_empty" =>
        /\ strCall.res = (strCall.len = 0)
        /\ strCall.res = (fstr[1][1] = 0)

----------------------------------------------------------------------------
(* Properties of LineInfo and its attributes *)

\* the flags a LineInfo has in effect: the override if there is one
EffectiveFlags(x) == IF x.attrs.flags # None THEN x.attrs.flags[1] ELSE x.flags

\* the queryable content of two LineInfo values is the same
SameInfo(x, y) ==
    /\ x.name = y.name
    /\ x.consumer = y.consumer
    /\ x.offset = y.offset
    /\ EffectiveFlags(x) = EffectiveFlags(y)
    /\ x.attrs.values = y.attrs.values
    /\ x.attrs.debounce = y.attrs.debounce

\* C22: for every well-formed LineInfo x, decoding the wire record that
\* encoding x produces succeeds and gives a LineInfo with the name, consumer,
\* offset, effective flags, output values and debounce of x, and encoding
\* that result again gives the same wire record.
C22_RoundTrip ==
    (given.kind = "info" /\ info # None) =>
        /\ info[1].res = "Ok"
        /\ SameInfo(info[1].v, given.v)
        /\ rewire # None => rewire[1] = wire[1]

\* the number of entries of the attribute list of w that decoding reads
ReadCount(w) == Min(w.num_attrs, GPIO_LINE_NUM_ATTRS_MAX)

\* the positions among the first n of the attributes of w with identifier id
Positions(w, id) == {i \in 1..ReadCount(w) : w.attrs[i].id = id}

\* the greatest position in a non-empty set of positions
Latest(ps) == CHOOSE i \in ps : \A j \in ps : j <= i

\* every entry that decoding reads has a known identifier
AllKnown(w) == \A i \in 1..ReadCount(w) : w.attrs[i].id \in {FLAGS, OUTPUT_VALUES, DEBOUNCE}

\* the name array of w decodes
NameDecodes(w) == from_utf8(BeforeNul(w.name), 1)

\* C23: decoding the attribute list reads the first min(num_attrs, 10)
\* entries in order and folds them: the flags override is the union of all
\* flags attributes read (absent if none), the values are those of the last
\* values attribute read, the debounce that of the last debounce attribute
\* read; repeated attributes of any kind cause neither a panic nor an error.
C23_AttributeFold ==
    (given.kind = "wire" /\ info # None) =>
        LET w  == given.v
            a  == info[1].v.attrs
            fs == Positions(w, FLAGS)
            vs == Positions(w, OUTPUT_VALUES)
            ds == Positions(w, DEBOUNCE)
        IN  /\ (NameDecodes(w) /\ AllKnown(w)) => info[1].res = "Ok"
            /\ info[1].res = "Ok" =>
                  /\ a.flags = IF fs = {} THEN None
                                ELSE Some(UNION {w.attrs[i].raw : i \in fs})
                  /\ a.values = IF vs = {} THEN None
                                 ELSE Some([bits |-> w.attrs[Latest(vs)].raw, mask |-> 0..63])
                  /\ a.debounce = IF ds = {} THEN None
                                   ELSE Some([d |-> {i \in w.attrs[Latest(ds)].raw : i < 32}])

\* C23 witness: two flags attributes with different flags
C23_Witness ==
    /\ given.kind = "wire" /\ info # None /\ info[1].res = "Ok"
    /\ given.v.num_attrs = 2
    /\ given.v.attrs[1].id = FLAGS /\ given.v.attrs[2].id = FLAGS
    /\ given.v.attrs[1].raw # given.v.attrs[2].raw
    /\ info[1].v.attrs.flags = Some(given.v.attrs[1].raw \cup given.v.attrs[2].raw)

\* C27: when one of the first num_attrs entries has an identifier other than
\* flags, output-values or debounce, decoding the list fails with Unsupported
\* and the decode of the LineInfo fails with it; the entries from position
\* num_attrs on are never looked at, whatever their identifier.  (from_v2
\* decodes the name before the list, so the list is decoded only when the
\* name is.)
C27_UnknownAttributeUnsupported ==
    (given.kind = "wire" /\ info # None /\ NameDecodes(given.v)) =>
        /\ ~AllKnown(given.v) => info[1].res = "Unsupported"
        /\ AllKnown(given.v) => info[1].res = "Ok"

C27_Witness ==
    /\ given.kind = "wire" /\ info # None
    /\ given.v.num_attrs = 2
    /\ given.v.attrs[1].id = FLAGS
    /\ given.v.attrs[2].id = DEBOUNCE + 1
    /\ info[1].res = "Unsupported"

\* C24: when the decoded LineInfo carries a flags attribute, every query
\* derived from the flags answers from the flags of the attribute: flags(),
\* direction(), is_used(), is_active_low(), is_open_drain() and
\* is_open_source(); they answer from the base flags only when there is no
\* flags attribute.
C24_FlagsAttributePrecedes ==
    (info # None /\ answers # None) =>
        LET x  == info[1].v
            fl == IF x.attrs.flags # None THEN x.attrs.flags[1] ELSE x.flags
            q  == answers[1]
        IN  /\ q.flags = fl
            /\ q.direction = IF OUTPUT \in fl THEN "Output" ELSE "Input"
            /\ q.is_used = (USED \in fl)
            /\ q.is_active_low = (ACTIVE_LOW \in fl)
            /\ q.is_open_drain = (OPEN_DRAIN \in fl)
            /\ q.is_open_source = (OPEN_SOURCE \in fl)

----------------------------------------------------------------------------
(* Properties of the option builder *)

BiasBits == {BIAS_PULL_UP, BIAS_PULL_DOWN, BIAS_DISABLED}

ClockBits == {EVENT_CLOCK_REALTIME, EVENT_CLOCK_HTE}

\* the type parameter changes only from () to HasInput or HasDrivenOutput and
\* from HasDrivenOutput to HasOpenOutput
DirectionStep ==
    \/ builder'.d = builder.d
    \/ builder.d = "()" /\ builder'.d \in {"HasInput", "HasDrivenOutput"}
    \/ builder.d = "HasDrivenOutput" /\ builder'.d = "HasOpenOutput"

\* an input builder has no drive, a driven-output builder has only a polarity
WellTyped ==
    /\ builder.d = "HasInput" => builder.drive = None
    /\ builder.d = "HasDrivenOutput" =>
          /\ builder.bias = None /\ builder.edge = None
          /\ builder.clock = None /\ builder.drive = None

\* the flag combinations the kernel rejects
Contradictory(flags) ==
    \/ {INPUT, OUTPUT} \subseteq flags
    \/ INPUT \in flags /\ (OPEN_DRAIN \in flags \/ OPEN_SOURCE \in flags)
    \/ {OPEN_DRAIN, OPEN_SOURCE} \subseteq flags
    \/ Cardinality(flags \cap BiasBits) > 1

\* C6: the builder's direction only moves () -> HasInput | HasDrivenOutput and
\* HasDrivenOutput -> HasOpenOutput; in every state reached from new() an input
\* builder has no drive and a driven-output builder has no bias, edge, clock
\* or drive; and no lowered flag word holds INPUT with OUTPUT, INPUT with an
\* open-drive flag, both open-drive flags, or more than one BIAS_* flag.
C6_BuilderStateMachine ==
    /\ [][DirectionStep]_vars
    /\ [](WellTyped /\ (lowered # None => ~Contradictory(lowered[1])))

\* C6 witness: an open-output builder, made from a driven output, lowered
\* with a bias and a drive chosen
C6_Witness ==
    /\ lowered # None
    /\ builder.d = "HasOpenOutput"
    /\ builder.bias = Some("PullUp")
    /\ builder.drive = Some("OpenSource")

\* C7: apart from the clock bits, build_v2 returns exactly: INPUT for an input
\* builder and OUTPUT for both output builders; ACTIVE_LOW iff the polarity is
\* Low; for input and open output one bias flag (BIAS_DISABLED when the bias is
\* unspecified or Disabled) and the edge flags of the edge mode; for open
\* output the flag of the drive; nothing else.
C7_LoweredFlags ==
    lowered # None =>
        LET flags == lowered[1] \ ClockBits
            rich  == builder.d \in {"HasInput", "HasOpenOutput"}
            has(flag, cond) == (flag \in flags) <=> cond
        IN  /\ has(USED, FALSE)
            /\ has(INPUT, builder.d = "HasInput")
            /\ has(OUTPUT, builder.d \in {"HasDrivenOutput", "HasOpenOutput"})
            /\ has(ACTIVE_LOW, builder.active = Some("Low"))
            /\ has(BIAS_PULL_UP, rich /\ builder.bias = Some("PullUp"))
            /\ has(BIAS_PULL_DOWN, rich /\ builder.bias = Some("PullDown"))
            /\ has(BIAS_DISABLED, rich /\ builder.bias \in {None, Some("Disabled")})
            /\ has(EDGE_RISING, rich /\ builder.edge \in {Some("Rising"), Some("Both")})
            /\ has(EDGE_FALLING, rich /\ builder.edge \in {Some("Falling"), Some("Both")})
            /\ has(OPEN_DRAIN, builder.d = "HasOpenOutput" /\ builder.drive = Some("OpenDrain"))
            /\ has(OPEN_SOURCE, builder.d = "HasOpenOutput" /\ builder.drive = Some("OpenSource"))
            /\ flags \subseteq 0..EVENT_CLOCK_HTE

\* C7 witness: an input builder lowered with no bias given and both edges
C7_Witness ==
    /\ lowered # None
    /\ builder.d = "HasInput"
    /\ builder.bias = None
    /\ builder.edge = Some("Both")
    /\ builder.active = Some("Low")

\* C8: for input and open-output builders the lowered flags hold
\* EVENT_CLOCK_REALTIME exactly when an edge mode is set and the clock is
\* RealTime, EVENT_CLOCK_HTE exactly when an edge mode is set and the clock is
\* HardwareTimestampEngine, and never both.
C8_ClockNeedsEdge ==
    (lowered # None /\ builder.d \in {"HasInput", "HasOpenOutput"}) =>
        /\ (EVENT_CLOCK_REALTIME \in lowered[1])
              <=> (builder.edge # None /\ builder.clock = Some("RealTime"))
        /\ (EVENT_CLOCK_HTE \in lowered[1])
              <=> (builder.edge # None /\ builder.clock = Some("HardwareTimestampEngine"))
        /\ ~(ClockBits \subseteq lowered[1])

\* C8 witness: an open-output builder lowered with RealTime requested and no
\* edge detection
C8_Witness ==
    /\ lowered # None
    /\ builder.d = "HasOpenOutput"
    /\ builder.edge = None
    /\ builder.clock = Some("RealTime")

----------------------------------------------------------------------------
Init == InitSet /\ NoBits /\ NoBuilder /\ NoStr /\ NoAcquire /\ NoInfo

InitB == InitBits /\ NoSet /\ NoBuilder /\ NoStr /\ NoAcquire /\ NoInfo

SpecSet == Init /\ [][NextSet]_vars

SpecBits == InitB /\ [][NextBits]_vars

InitV == InitValues /\ NoBits /\ NoBuilder /\ NoStr /\ NoAcquire /\ NoInfo

SpecValues == InitV /\ [][NextValues]_vars

InitF == InitStr /\ NoSet /\ NoBits /\ NoBuilder /\ NoAcquire /\ NoInfo

SpecStr == InitF /\ [][NextStr]_vars

InitA == InitAcquire /\ NoSet /\ NoBits /\ NoBuilder /\ NoStr /\ NoInfo

SpecAcquire == InitA /\ [][NextAcquire]_vars

InitI == InitInfo /\ NoSet /\ NoBits /\ NoBuilder /\ NoStr /\ NoAcquire

SpecInfo == InitI /\ [][NextInfo]_vars

InitM == InitOps /\ NoSet /\ NoBuilder /\ NoStr /\ NoAcquire /\ NoInfo

SpecOps == InitM /\ [][NextOps]_vars

InitO == InitBuilder /\ NoSet /\ NoBits /\ NoStr /\ NoAcquire /\ NoInfo

SpecBuilder == InitO /\ [][NextBuilder]_vars

====
